---------------------------- MODULE Spec2Model ----------------------------
(***************************************************************************)
(* The guided onboarding dialogue engine of the conversational agent       *)
(* backend: AIService.processOnboardingMessage and the helpers it calls    *)
(* (backend/routes/onboardingFlows.js), the OnboardingProgress document    *)
(* methods (backend/models/OnboardingProgress.js) and the HTTP handlers    *)
(* that create flows and sessions.                                         *)
(*                                                                         *)
(* Texts are TLA+ strings; a character is a string of length one.  An      *)
(* optional JavaScript value (undefined / null) is the empty tuple << >>,  *)
(* a present value v is the one-element tuple <<v>>.  Timestamps           *)
(* (startedAt, completedAt, extractedAt, lastActivity) and generated ids   *)
(* are left out: no handler reads them.                                    *)
(***************************************************************************)
EXTENDS Integers, Sequences, FiniteSets, TLC

(***************************************************************************)
(* Optional values                                                         *)
(***************************************************************************)
None == << >>
Some(v) == <<v>>

(***************************************************************************)
(* JavaScript string primitives                                            *)
(***************************************************************************)
CharAt(s, i) == SubSeq(s, i, i)

UpperCaseLetters == "ABCDEFGHIJKLMNOPQRSTUVWXYZ"
LowerCaseLetters == "abcdefghijklmnopqrstuvwxyz"
Whitespace == {" ", "\t", "\n", "\r", "\f"}

\* String.prototype.toLowerCase on one character
LowerChar(c) ==
  IF \E k \in 1..26 : CharAt(UpperCaseLetters, k) = c
    THEN CharAt(LowerCaseLetters, CHOOSE k \in 1..26 : CharAt(UpperCaseLetters, k) = c)
    ELSE c

RECURSIVE toLowerCase(_)
toLowerCase(s) ==
  IF Len(s) = 0 THEN ""
  ELSE LowerChar(CharAt(s, 1)) \o toLowerCase(SubSeq(s, 2, Len(s)))

\* String.prototype.includes
includes(s, k) ==
  \E i \in 1..(Len(s) - Len(k) + 1) : SubSeq(s, i, i + Len(k) - 1) = k

\* String.prototype.indexOf, 1-based; 0 when k does not occur
indexOf(s, k) ==
  LET hits == {i \in 1..(Len(s) - Len(k) + 1) : SubSeq(s, i, i + Len(k) - 1) = k}
  IN IF hits = {} THEN 0 ELSE CHOOSE i \in hits : \A j \in hits : i <= j

\* String.prototype.trim
RECURSIVE trimStart(_)
trimStart(s) ==
  IF Len(s) > 0 /\ CharAt(s, 1) \in Whitespace
    THEN trimStart(SubSeq(s, 2, Len(s)))
    ELSE s

RECURSIVE trimEnd(_)
trimEnd(s) ==
  IF Len(s) > 0 /\ CharAt(s, Len(s)) \in Whitespace
    THEN trimEnd(SubSeq(s, 1, Len(s) - 1))
    ELSE s

trim(s) == trimEnd(trimStart(s))

\* Array.prototype.join
RECURSIVE join(_, _)
join(lines, sep) ==
  IF Len(lines) = 0 THEN ""
  ELSE IF Len(lines) = 1 THEN lines[1]
  ELSE lines[1] \o sep \o join(Tail(lines), sep)

\* Array.prototype.filter / find on a sequence, by a set of accepted indices
RECURSIVE SelectIndices(_, _, _)
SelectIndices(seq, keep, i) ==
  IF i > Len(seq) THEN << >>
  ELSE IF i \in keep THEN <<seq[i]>> \o SelectIndices(seq, keep, i + 1)
  ELSE SelectIndices(seq, keep, i + 1)

(***************************************************************************)
(* AIService.intentKeywords, in registration order                         *)
(***************************************************************************)
intentKeywords == <<
  [name |-> "greeting",     keywords |-> <<"hello", "hi", "hey", "good morning", "good afternoon", "good evening">>],
  [name |-> "help",         keywords |-> <<"help", "assist", "support", "guide", "how to">>],
  [name |-> "question",     keywords |-> <<"what", "how", "why", "when", "where", "explain", "tell me">>],
  [name |-> "gratitude",    keywords |-> <<"thank", "thanks", "appreciate", "grateful">>],
  [name |-> "farewell",     keywords |-> <<"bye", "goodbye", "see you", "farewell", "exit">>],
  [name |-> "learning",     keywords |-> <<"learn", "teach", "show", "tutorial", "guide">>],
  [name |-> "confusion",    keywords |-> <<"confused", "don't understand", "unclear", "difficult", "hard">>],
  [name |-> "confirmation", keywords |-> <<"yes", "correct", "right", "that's right", "confirm", "proceed", "go ahead">>],
  [name |-> "correction",   keywords |-> <<"no", "wrong", "incorrect", "change", "modify", "edit", "update">>],
  [name |-> "start_flow",   keywords |-> <<"start", "begin", "ready", "let's go", "proceed", "continue">>],
  [name |-> "skip",         keywords |-> <<"skip", "next", "pass", "not applicable", "n/a">>] >>

\* a comparison that also lets an equal confidence replace the best match
ConfidenceGreater_orEqual(a, b) == a.num * b.den >= b.num * a.den

\* A confidence matches / total is kept as the pair [num, den]; a / b > c / d
\* is compared as a * d > c * b (all denominators are positive).
ConfidenceGreater(a, b) == a.num * b.den > b.num * a.den

RECURSIVE classifyFrom(_, _, _)
classifyFrom(lowerText, k, bestMatch) ==
  IF k > Len(intentKeywords) THEN bestMatch
  ELSE
    LET keywords   == intentKeywords[k].keywords
        matches    == {j \in 1..Len(keywords) : includes(lowerText, keywords[j])}
        confidence == [num |-> Cardinality(matches), den |-> Len(keywords)]
    IN IF ConfidenceGreater(confidence, bestMatch.confidence)
         THEN classifyFrom(lowerText, k + 1, [name |-> intentKeywords[k].name, confidence |-> confidence])
         ELSE classifyFrom(lowerText, k + 1, bestMatch)

classifyIntent(text) ==
  classifyFrom(toLowerCase(text), 1, [name |-> "unknown", confidence |-> [num |-> 0, den |-> 1]])

(***************************************************************************)
(* Regular expressions of extractFieldValue.  A pattern is a tree; Ends    *)
(* lists the positions at which a match of the node that starts at        *)
(* position p can end, in the order in which a backtracking matcher tries  *)
(* them (greedy quantifiers first, alternatives left to right).            *)
(* String.prototype.match returns the leftmost start that has a match and, *)
(* for it, the first end of the list.                                      *)
(***************************************************************************)
Digit == {"0", "1", "2", "3", "4", "5", "6", "7", "8", "9"}
Upper == {CharAt(UpperCaseLetters, k) : k \in 1..26}
Lower == {CharAt(LowerCaseLetters, k) : k \in 1..26}
WordChar == Upper \cup Lower \cup Digit \cup {"_"}

At(s, p) == IF p >= 1 /\ p <= Len(s) THEN CharAt(s, p) ELSE ""

Class(set) == [t |-> "class", set |-> set]
Lit(text) == [t |-> "lit", text |-> text]
Seq_(items) == [t |-> "seq", items |-> items]
Alt(items) == [t |-> "alt", items |-> items]
Rep(item, min, max) == [t |-> "rep", item |-> item, min |-> min, max |-> max]
WordBoundary == [t |-> "wb"]
Unbounded == -1

RECURSIVE Ends(_, _, _, _)
RECURSIVE EndsItems(_, _, _, _)
RECURSIVE EndsFrom(_, _, _, _)
RECURSIVE EndsAlt(_, _, _, _)

\* ignoreCase is the /i flag of the pattern
Ends(n, s, p, ignoreCase) ==
  CASE n.t = "class" ->
         IF At(s, p) \in n.set THEN <<p + 1>> ELSE << >>
    [] n.t = "lit" ->
         LET q == p + Len(n.text) - 1
             sub == IF q <= Len(s) THEN SubSeq(s, p, q) ELSE ""
         IN IF q <= Len(s) /\ (IF ignoreCase THEN toLowerCase(sub) = toLowerCase(n.text)
                                             ELSE sub = n.text)
              THEN <<q + 1>> ELSE << >>
    [] n.t = "wb" ->
         IF (At(s, p - 1) \in WordChar) # (At(s, p) \in WordChar) THEN <<p>> ELSE << >>
    [] n.t = "seq" -> EndsItems(n.items, s, p, ignoreCase)
    [] n.t = "alt" -> EndsAlt(n.items, s, p, ignoreCase)
    [] n.t = "rep" ->
         LET once == SelectSeq(Ends(n.item, s, p, ignoreCase), LAMBDA e : e > p)
             more == IF n.max = 0 THEN << >>
                     ELSE EndsFrom(<<Rep(n.item,
                                         IF n.min > 0 THEN n.min - 1 ELSE 0,
                                         IF n.max = Unbounded THEN Unbounded ELSE n.max - 1)>>,
                                   s, once, ignoreCase)
         IN more \o (IF n.min <= 0 THEN <<p>> ELSE << >>)

EndsItems(items, s, p, ignoreCase) ==
  IF Len(items) = 0 THEN <<p>>
  ELSE EndsFrom(Tail(items), s, Ends(Head(items), s, p, ignoreCase), ignoreCase)

EndsFrom(items, s, starts, ignoreCase) ==
  IF Len(starts) = 0 THEN << >>
  ELSE EndsItems(items, s, Head(starts), ignoreCase)
         \o EndsFrom(items, s, Tail(starts), ignoreCase)

EndsAlt(items, s, p, ignoreCase) ==
  IF Len(items) = 0 THEN << >>
  ELSE Ends(Head(items), s, p, ignoreCase) \o EndsAlt(Tail(items), s, p, ignoreCase)

\* message.match(pattern): the matched text, or None
match(s, pattern, ignoreCase) ==
  LET starts == {i \in 1..(Len(s) + 1) : Len(Ends(pattern, s, i, ignoreCase)) > 0} IN
    IF starts = {} THEN None
    ELSE LET i == CHOOSE a \in starts : \A b \in starts : a <= b
         IN Some(SubSeq(s, i, Head(Ends(pattern, s, i, ignoreCase)) - 1))

\* /\b[A-Za-z0-9._%+-]+@[A-Za-z0-9.-]+\.[A-Z|a-z]{2,}\b/
emailPattern ==
  Seq_(<< WordBoundary,
          Rep(Class(Upper \cup Lower \cup Digit \cup {".", "_", "%", "+", "-"}), 1, Unbounded),
          Lit("@"),
          Rep(Class(Upper \cup Lower \cup Digit \cup {".", "-"}), 1, Unbounded),
          Lit("."),
          Rep(Class(Upper \cup Lower \cup {"|"}), 2, Unbounded),
          WordBoundary >>)

\* /\b\d{10}\b|\b\d{3}[-.]?\d{3}[-.]?\d{4}\b/
phonePattern ==
  Alt(<< Seq_(<<WordBoundary, Rep(Class(Digit), 10, 10), WordBoundary>>),
         Seq_(<< WordBoundary, Rep(Class(Digit), 3, 3), Rep(Class({"-", "."}), 0, 1),
                 Rep(Class(Digit), 3, 3), Rep(Class({"-", "."}), 0, 1),
                 Rep(Class(Digit), 4, 4), WordBoundary >>) >>)

\* /\b\d{1,2}(?:st|nd|rd|th)?\s+(?:january|...|december)\s+\d{4}\b/i
textDatePattern ==
  Seq_(<< WordBoundary, Rep(Class(Digit), 1, 2),
          Rep(Alt(<<Lit("st"), Lit("nd"), Lit("rd"), Lit("th")>>), 0, 1),
          Rep(Class(Whitespace), 1, Unbounded),
          Alt(<< Lit("january"), Lit("february"), Lit("march"), Lit("april"), Lit("may"),
                 Lit("june"), Lit("july"), Lit("august"), Lit("september"), Lit("october"),
                 Lit("november"), Lit("december") >>),
          Rep(Class(Whitespace), 1, Unbounded),
          Rep(Class(Digit), 4, 4), WordBoundary >>)

\* /\b\d{1,2}[-/]\d{1,2}[-/]\d{4}\b/
numericDatePattern ==
  Seq_(<< WordBoundary, Rep(Class(Digit), 1, 2), Class({"-", "/"}),
          Rep(Class(Digit), 1, 2), Class({"-", "/"}),
          Rep(Class(Digit), 4, 4), WordBoundary >>)

\* /\b\d+(?:,\d{3})*(?:\.\d{2})?\b/
numberPattern ==
  Seq_(<< WordBoundary, Rep(Class(Digit), 1, Unbounded),
          Rep(Seq_(<<Lit(","), Rep(Class(Digit), 3, 3)>>), 0, Unbounded),
          Rep(Seq_(<<Lit("."), Rep(Class(Digit), 2, 2)>>), 0, 1),
          WordBoundary >>)

\* a find that returns the last option the message includes
RECURSIVE findOption_last(_, _)
findOption_last(options, lowerMessage) ==
  IF Len(options) = 0 THEN None
  ELSE IF includes(lowerMessage, toLowerCase(options[Len(options)]))
    THEN Some(options[Len(options)])
  ELSE findOption_last(SubSeq(options, 1, Len(options) - 1), lowerMessage)

\* Array.prototype.find over field.validation.options
RECURSIVE findOption(_, _)
findOption(options, lowerMessage) ==
  IF Len(options) = 0 THEN None
  ELSE IF includes(lowerMessage, toLowerCase(Head(options))) THEN Some(Head(options))
  ELSE findOption(Tail(options), lowerMessage)

\* AIService.extractFieldValue: Some(value), or None for null.  A select
\* option that is the empty string is found but falsy, so `|| null` drops it.
extractFieldValue(message, field) ==
  LET lowerMessage == toLowerCase(message) IN
  CASE field.fieldType \in {"text", "textarea"} -> Some(trim(message))
    [] field.fieldType = "email" -> match(message, emailPattern, FALSE)
    [] field.fieldType = "phone" -> match(message, phonePattern, FALSE)
    [] field.fieldType = "date" ->
         LET dateMatch == match(message, textDatePattern, TRUE) IN
           IF dateMatch # None THEN dateMatch
           ELSE match(message, numericDatePattern, FALSE)
    [] field.fieldType = "number" -> match(message, numberPattern, FALSE)
    [] field.fieldType = "select" ->
         IF field.validation # None
           THEN LET selectedOption == findOption(field.validation[1].options, lowerMessage)
                IN IF selectedOption # None /\ selectedOption[1] # "" THEN selectedOption ELSE None
           ELSE None
    [] OTHER -> Some(trim(message))

(***************************************************************************)
(* Flow configurations (OnboardingFlowConfig documents)                    *)
(***************************************************************************)
Field(fieldId, fieldName, fieldType, required, validation, prompt, confirmationPrompt) ==
  [fieldId |-> fieldId, fieldName |-> fieldName, fieldType |-> fieldType,
   required |-> required, validation |-> validation, prompt |-> prompt,
   confirmationPrompt |-> confirmationPrompt]

\* confirmationMessage and nextStep are optional in stepSchema; isCheckpoint
\* defaults to false
Step(stepId, stepName, stepType, fields, isCheckpoint, confirmationMessage, nextStep) ==
  [stepId |-> stepId, stepName |-> stepName, stepType |-> stepType, fields |-> fields,
   isCheckpoint |-> isCheckpoint, confirmationMessage |-> confirmationMessage,
   nextStep |-> nextStep]

Options(options) == Some([options |-> options])

\* seedLoanFlow.js, loanApplicationFlow.  monthly_income is left out (its
\* confirmation prompt holds a non-ASCII character); no step of this flow is
\* ever current, because sessions start on 'welcome'.
loanApplicationFlow ==
  [flowId |-> "loan_application",
   welcomeMessage |-> "Hello! I'm here to help you apply for your loan. I'll just ask you a few quick questions, and we'll be done in a few minutes. Ready to begin?",
   completionMessage |-> "Perfect! Your loan application is now submitted. We'll review it and get back to you shortly with the next steps. Thank you for your time!",
   steps |-> <<
     Step("personal_details", "Personal Details", "data_collection",
          << Field("full_name", "Full Name", "text", TRUE, None,
                   "Great! Can I have your full name as per your official documents?", Some("Name: {value}")),
             Field("date_of_birth", "Date of Birth", "date", TRUE, None,
                   "And your date of birth?", Some("DOB: {value}")),
             Field("gender", "Gender", "select", TRUE, Options(<<"Male", "Female", "Other">>),
                   "Gender?", Some("Gender: {value}")),
             Field("mobile_number", "Mobile Number", "phone", TRUE, None,
                   "Which mobile number should we use to contact you?", Some("Mobile: {value}")),
             Field("email_address", "Email Address", "email", TRUE, None,
                   "And your email address?", Some("Email: {value}")) >>,
          TRUE, Some("Just to confirm, here's what I have:\n{confirmation_data}\nIs that correct?"),
          Some("other_details")),
     Step("other_details", "Other Details", "data_collection",
          << Field("current_address", "Current Address", "textarea", TRUE, None,
                   "What's your current residential address?", Some("Current Address: {value}")),
             Field("address_type", "Address Type", "select", TRUE,
                   Options(<<"Owned", "Rented", "Provided by employer">>),
                   "Is this owned, rented, or provided by your employer?", Some("({value})")),
             Field("stay_duration", "Stay Duration", "text", TRUE, None,
                   "How long have you been staying here?", Some("{value}")),
             Field("permanent_address", "Permanent Address", "textarea", FALSE, None,
                   "Do you have a different permanent address?", Some("Permanent Address: {value}")),
             Field("bank_name", "Bank Name", "text", TRUE, None,
                   "Which bank account should we use for loan disbursement?", Some("Bank: {value}")),
             Field("account_number", "Account Number", "text", TRUE, None,
                   "Can you confirm the account number and IFSC code?", Some("Account No: {value}")),
             Field("ifsc_code", "IFSC Code", "text", TRUE, None,
                   "And the IFSC code?", Some("IFSC Code: {value}")) >>,
          TRUE, Some("Just to confirm, here's what I have:\n{confirmation_data}\nShall I go ahead with these details?"),
          Some("completion")),
     Step("completion", "Application Complete", "completion", << >>, FALSE,
          Some("Perfect! Your loan application is now submitted. We'll review it and get back to you shortly with the next steps. Thank you for your time!"),
          None) >>]

\* seedLoanFlow.js, simpleOnboardingFlow
simpleOnboardingFlow ==
  [flowId |-> "simple_onboarding",
   welcomeMessage |-> "Welcome to our company! I'll help you get started with your onboarding process.",
   completionMessage |-> "Congratulations! You've completed your onboarding. Welcome to the team!",
   steps |-> <<
     Step("welcome", "Welcome", "data_collection",
          << Field("employee_id", "Employee ID", "text", TRUE, None,
                   "What's your employee ID?", Some("Employee ID: {value}")) >>,
          FALSE, None, Some("profile_setup")),
     Step("profile_setup", "Profile Setup", "data_collection",
          << Field("department", "Department", "text", TRUE, None,
                   "Which department are you joining?", Some("Department: {value}")) >>,
          FALSE, None, Some("completion")),
     Step("completion", "Onboarding Complete", "completion", << >>, FALSE, None, None) >>]

SeededFlows == {loanApplicationFlow, simpleOnboardingFlow}

(***************************************************************************)
(* Flows an administrator submits to POST /flows.  They follow the loan    *)
(* application seed (checkpoint steps with a confirmation message) but     *)
(* start on 'welcome', the step every new session is created on.           *)
(***************************************************************************)
\* two checkpoint steps and a completion step with a message of its own
tenancyFlow ==
  [flowId |-> "tenancy",
   welcomeMessage |-> "Let's record your tenancy. Ready?",
   completionMessage |-> "Your tenancy details are submitted.",
   steps |-> <<
     Step("welcome", "Tenancy", "data_collection",
          << Field("address_type", "Address Type", "select", TRUE,
                   Options(<<"Owned", "Rented", "Provided by employer">>),
                   "Is this owned, rented, or provided by your employer?", Some("({value})")),
             Field("monthly_income", "Monthly Income", "number", TRUE, None,
                   "What's your monthly net income after deductions?", None) >>,
          TRUE, Some("I have:\n{confirmation_data}\nIs that correct?"),
          Some("household")),
     Step("household", "Household", "data_collection",
          << Field("gender", "Gender", "select", TRUE, Options(<<"Male", "Female", "Other">>),
                   "Gender?", Some("Gender: {value}")) >>,
          TRUE, Some("I have:\n{confirmation_data}\nShall I go ahead?"),
          Some("completion")),
     Step("completion", "Done", "completion", << >>, FALSE,
          Some("Thanks, we will be in touch."), None) >>]

\* a single checkpoint step that is terminal (no nextStep)
profileFlow ==
  [flowId |-> "profile",
   welcomeMessage |-> "Let's complete your profile.",
   completionMessage |-> "Your profile is complete.",
   steps |-> <<
     Step("welcome", "Profile", "data_collection",
          << Field("gender", "Gender", "select", TRUE, Options(<<"Male", "Female", "Other">>),
                   "Gender?", Some("Gender: {value}")),
             Field("date_of_birth", "Date of Birth", "date", TRUE, None,
                   "And your date of birth?", Some("DOB: {value}")) >>,
          TRUE, Some("I have:\n{confirmation_data}\nIs that correct?"),
          None) >>]

\* one checkpoint step with a free-text field, followed by a completion step
\* without a message of its own
residenceFlow ==
  [flowId |-> "residence",
   welcomeMessage |-> "Let's record where you live.",
   completionMessage |-> "Your residence details are saved.",
   steps |-> <<
     Step("welcome", "Residence", "data_collection",
          << Field("stay_duration", "Stay Duration", "text", TRUE, None,
                   "How long have you been staying here?", Some("{value}")) >>,
          TRUE, Some("I have:\n{confirmation_data}\nIs that correct?"),
          Some("completion")),
     Step("completion", "Done", "completion", << >>, FALSE, None, None) >>]

\* a checkpoint step whose nextStep names no step of the flow
feedbackFlow ==
  [flowId |-> "feedback",
   welcomeMessage |-> "We'd like your feedback.",
   completionMessage |-> "Thank you for your feedback.",
   steps |-> <<
     Step("welcome", "Feedback", "data_collection",
          << Field("address_type", "Address Type", "select", TRUE,
                   Options(<<"Owned", "Rented", "Provided by employer">>),
                   "Is this owned, rented, or provided by your employer?", Some("({value})")) >>,
          TRUE, Some("I have:\n{confirmation_data}\nIs that correct?"),
          Some("review")) >>]

CandidateFlows == {tenancyFlow, profileFlow, residenceFlow, feedbackFlow}

\* a flow whose step graph has a cycle ('household' leads back to
\* 'welcome') and whose first step has an optional field
relocationFlow ==
  [flowId |-> "relocation",
   welcomeMessage |-> "Let's record your move. Ready?",
   completionMessage |-> "Your move is recorded.",
   steps |-> <<
     Step("welcome", "Address", "data_collection",
          << Field("address_type", "Address Type", "select", TRUE,
                   Options(<<"Owned", "Rented", "Provided by employer">>),
                   "Is this owned, rented, or provided by your employer?", Some("({value})")),
             Field("monthly_income", "Monthly Income", "number", FALSE, None,
                   "What's your monthly net income after deductions?", None) >>,
          TRUE, Some("I have:\n{confirmation_data}\nIs that correct?"),
          Some("household")),
     Step("household", "Household", "data_collection",
          << Field("gender", "Gender", "select", TRUE, Options(<<"Male", "Female", "Other">>),
                   "Gender?", Some("Gender: {value}")) >>,
          TRUE, Some("I have:\n{confirmation_data}\nShall I go ahead?"),
          Some("welcome")) >>]

RevisitFlows == {relocationFlow}

\* what users type
Utterances ==
  { "yes", "no, owned", "hello", " it's rented", "Female", "15th August 1992" }

Users == {"u1"}

\* bounds of the model
MaxFlows == 1
MaxSessions == 1

\* every field of every flow
AllFields ==
  UNION { UNION { {step.fields[k] : k \in 1..Len(step.fields)} :
                  step \in {f.steps[j] : j \in 1..Len(f.steps)} } :
          f \in SeededFlows \cup CandidateFlows \cup RevisitFlows }

\* String.prototype.replace(pattern, replacement) with a string pattern:
\* only the first occurrence is replaced.  No text of the model holds a
\* "$", so the replacement is inserted verbatim.
replace(s, pattern, replacement) ==
  LET i == indexOf(s, pattern) IN
    IF i = 0 THEN s
    ELSE SubSeq(s, 1, i - 1) \o replacement \o SubSeq(s, i + Len(pattern), Len(s))

\* classifyIntent and extractFieldValue are pure; their results on the
\* utterances and fields of the model are tabulated once
intentOf == [m \in Utterances |-> classifyIntent(toLowerCase(m))]
extractedValue == [m \in Utterances, field \in AllFields |-> extractFieldValue(m, field)]

(***************************************************************************)
(* OnboardingProgress documents and their methods                          *)
(***************************************************************************)
\* Array.prototype.findIndex by stepId, 1-based; 0 when absent
RECURSIVE findStepIndex(_, _, _)
findStepIndex(seq, stepId, i) ==
  IF i > Len(seq) THEN 0
  ELSE IF seq[i].stepId = stepId THEN i
  ELSE findStepIndex(seq, stepId, i + 1)

RECURSIVE findFieldIndex(_, _, _)
findFieldIndex(seq, fieldId, i) ==
  IF i > Len(seq) THEN 0
  ELSE IF seq[i].fieldId = fieldId THEN i
  ELSE findFieldIndex(seq, fieldId, i + 1)

\* flowConfig.steps.find(step => step.stepId === id)
findStep(flowConfig, stepId) ==
  LET i == findStepIndex(flowConfig.steps, stepId, 1) IN
    IF i = 0 THEN None ELSE Some(flowConfig.steps[i])

\* new OnboardingProgress({...}) of POST /start
NewProgress(userId, flowId, sessionId) ==
  [userId |-> userId, flowId |-> flowId, sessionId |-> sessionId,
   currentStep |-> "welcome", status |-> "active", stepProgress |-> << >>]

\* the record handleDataCollection pushes for a step without progress
NewStepProgress(step) ==
  [stepId |-> step.stepId, stepName |-> step.stepName, status |-> "in_progress",
   fieldData |-> << >>, confirmationData |-> None]

\* onboardingProgressSchema.methods.getCurrentStepProgress: the index of the
\* first record of the current step, 0 for undefined
getCurrentStepProgress(doc) == findStepIndex(doc.stepProgress, doc.currentStep, 1)

\* an updateFieldData that writes into the first record of the document,
\* whatever step it belongs to
updateFieldData_firstRecord(doc, stepId, fieldId, value) ==
  IF Len(doc.stepProgress) = 0 THEN [doc |-> doc, saved |-> FALSE]
  ELSE [doc |-> [doc EXCEPT !.stepProgress[1].fieldData =
                   Append(@, [fieldId |-> fieldId, value |-> value, confirmed |-> FALSE])],
        saved |-> TRUE]

\* The document methods mutate the document and save it.  Each returns the
\* document after the call and whether it was saved (false: early return).
updateFieldData(doc, stepId, fieldId, value) ==
  LET i == findStepIndex(doc.stepProgress, stepId, 1) IN
    IF i = 0 THEN [doc |-> doc, saved |-> FALSE]
    ELSE
      LET fieldData == doc.stepProgress[i].fieldData
          j == findFieldIndex(fieldData, fieldId, 1)
          newFieldData ==
            IF j # 0 THEN [fieldData EXCEPT ![j].value = value]
            ELSE Append(fieldData, [fieldId |-> fieldId, value |-> value, confirmed |-> FALSE])
      IN [doc |-> [doc EXCEPT !.stepProgress[i].fieldData = newFieldData], saved |-> TRUE]

confirmStepData(doc, stepId, confirmationData) ==
  LET i == findStepIndex(doc.stepProgress, stepId, 1) IN
    IF i = 0 THEN [doc |-> doc, saved |-> FALSE]
    ELSE
      LET fieldData == doc.stepProgress[i].fieldData IN
        [doc |-> [doc EXCEPT !.stepProgress[i].status = "completed",
                             !.stepProgress[i].confirmationData = Some(confirmationData),
                             !.stepProgress[i].fieldData =
                                [k \in 1..Len(fieldData) |-> [fieldData[k] EXCEPT !.confirmed = TRUE]]],
         saved |-> TRUE]

\* a moveToNextStep that saves the document without moving
moveToNextStep_stay(doc, nextStepId) ==
  [doc |-> doc, saved |-> TRUE]

moveToNextStep(doc, nextStepId) ==
  [doc |-> [doc EXCEPT !.currentStep = nextStepId], saved |-> TRUE]

(***************************************************************************)
(* AIService: the onboarding engine                                        *)
(***************************************************************************)
NotFoundResponse == "I'm sorry, I couldn't find the current step. Let me help you restart the process."
CorrectionResponse == "I understand you'd like to make changes. Please tell me which information needs to be corrected."
FallbackResponse == "I'm not sure how to help with that. Could you please provide the information I asked for?"
ErrorResponse == "I encountered an error processing your response. Please try again."
ThankYouResponse == "Thank you for confirming. Let me process this information."
ClarificationPrefix == "I couldn't understand that. "

\* an `a || b` that always yields b
OrElse_second(a, b) == b

\* `a || b` on an optional string: undefined and "" are falsy
OrElse(a, b) == IF a # None /\ a[1] # "" THEN a[1] ELSE b

\* the record of the current step as an optional value
currentStepProgress(doc) ==
  LET i == getCurrentStepProgress(doc) IN
    IF i = 0 THEN None ELSE Some(doc.stepProgress[i])

\* AIService.buildConfirmationData
buildConfirmationData(currentStep, stepProgress) ==
  IF stepProgress = None THEN ""
  ELSE
    LET fieldData == stepProgress[1].fieldData
        line(fd) ==
          LET j == findFieldIndex(currentStep.fields, fd.fieldId, 1) IN
            IF j = 0 THEN ""
            ELSE LET field == currentStep.fields[j]
                     confirmationPrompt ==
                       OrElse(field.confirmationPrompt, field.fieldName \o ": {value}")
                 IN replace(confirmationPrompt, "{value}", fd.value)
    IN join([k \in 1..Len(fieldData) |-> line(fieldData[k])], "\n")

\* a getNextFieldToCollect that always asks for the first declared field
getNextFieldToCollect_first(currentStep, doc) ==
  IF Len(currentStep.fields) = 0 THEN None ELSE Some(currentStep.fields[1])

\* a getNextFieldToCollect that takes the last declared field without a
\* stored value
getNextFieldToCollect_lastOpen(currentStep, doc) ==
  LET sp == currentStepProgress(doc)
      collectedFields == IF sp = None THEN {}
                         ELSE {sp[1].fieldData[k].fieldId : k \in 1..Len(sp[1].fieldData)}
      open == {k \in 1..Len(currentStep.fields) :
                 currentStep.fields[k].fieldId \notin collectedFields}
  IN IF open = {} THEN None
     ELSE Some(currentStep.fields[CHOOSE k \in open : \A l \in open : k >= l])

\* AIService.getNextFieldToCollect: the field, or None for undefined
getNextFieldToCollect(currentStep, doc) ==
  LET sp == currentStepProgress(doc) IN
    IF sp = None
      THEN IF Len(currentStep.fields) = 0 THEN None ELSE Some(currentStep.fields[1])
      ELSE
        LET collectedFields == {sp[1].fieldData[k].fieldId : k \in 1..Len(sp[1].fieldData)}
            open == {k \in 1..Len(currentStep.fields) :
                       currentStep.fields[k].fieldId \notin collectedFields}
        IN IF open = {} THEN None
           ELSE Some(currentStep.fields[CHOOSE k \in open : \A l \in open : k <= l])

\* AIService.getRemainingFields
getRemainingFields(currentStep, doc) ==
  LET sp == currentStepProgress(doc) IN
    IF sp = None THEN currentStep.fields
    ELSE
      LET collectedFields == {sp[1].fieldData[k].fieldId : k \in 1..Len(sp[1].fieldData)}
      IN SelectIndices(currentStep.fields,
                       {k \in 1..Len(currentStep.fields) :
                          currentStep.fields[k].fieldId \notin collectedFields}, 1)

\* What a handler leaves behind: the response text, the document as last
\* saved (the loaded one when nothing was saved), the branch taken, and
\* whether the handler threw (processOnboardingMessage catches and answers
\* with ErrorResponse).
Outcome(content, doc, path, threw) ==
  [content |-> IF threw THEN ErrorResponse ELSE content, doc |-> doc, path |-> path, threw |-> threw]

\* a showStepConfirmation that answers the confirmation message as
\* configured, without the confirmation block
showStepConfirmation_unrendered(doc, saved, currentStep, flowConfig, path) ==
  IF currentStep.confirmationMessage = None
    THEN Outcome("", saved, path, TRUE)
    ELSE Outcome(currentStep.confirmationMessage[1], saved, path, FALSE)

\* AIService.showStepConfirmation; `saved` is the document as last saved
showStepConfirmation(doc, saved, currentStep, flowConfig, path) ==
  LET confirmationData == buildConfirmationData(currentStep, currentStepProgress(doc)) IN
    IF currentStep.confirmationMessage = None
      THEN Outcome("", saved, path, TRUE)   \* undefined.replace: TypeError
      ELSE Outcome(replace(currentStep.confirmationMessage[1], "{confirmation_data}", confirmationData),
                   saved, path, FALSE)

\* a handleDataCollection that saves the session before it asks again for
\* a field it could not extract
handleDataCollection_savesFirst(message, onboardingProgress, currentStep, flowConfig) ==
  LET doc == IF getCurrentStepProgress(onboardingProgress) = 0
               THEN [onboardingProgress EXCEPT
                       !.stepProgress = Append(@, NewStepProgress(currentStep))]
               ELSE onboardingProgress
      nextField == getNextFieldToCollect(currentStep, doc)
  IN
    IF nextField = None
      THEN showStepConfirmation(doc, onboardingProgress, currentStep, flowConfig, "all_collected")
      ELSE
        LET fieldValue == extractedValue[message, nextField[1]] IN
          IF fieldValue # None
            THEN
              LET updated == updateFieldData(doc, currentStep.stepId, nextField[1].fieldId, fieldValue[1])
                  saved == IF updated.saved THEN updated.doc ELSE onboardingProgress
                  remainingFields == getRemainingFields(currentStep, updated.doc)
              IN IF Len(remainingFields) = 0
                   THEN showStepConfirmation(updated.doc, saved, currentStep, flowConfig, "stored_last")
                   ELSE Outcome(remainingFields[1].prompt, saved, "stored", FALSE)
            ELSE Outcome(ClarificationPrefix \o nextField[1].prompt, doc, "clarify", FALSE)

\* AIService.handleDataCollection
handleDataCollection(message, onboardingProgress, currentStep, flowConfig) ==
  LET doc == IF getCurrentStepProgress(onboardingProgress) = 0
               THEN [onboardingProgress EXCEPT
                       !.stepProgress = Append(@, NewStepProgress(currentStep))]
               ELSE onboardingProgress
      nextField == getNextFieldToCollect(currentStep, doc)
  IN
    IF nextField = None
      THEN showStepConfirmation(doc, onboardingProgress, currentStep, flowConfig, "all_collected")
      ELSE
        LET fieldValue == extractedValue[message, nextField[1]] IN
          IF fieldValue # None
            THEN
              LET updated == updateFieldData(doc, currentStep.stepId, nextField[1].fieldId, fieldValue[1])
                  saved == IF updated.saved THEN updated.doc ELSE onboardingProgress
                  remainingFields == getRemainingFields(currentStep, updated.doc)
              IN IF Len(remainingFields) = 0
                   THEN showStepConfirmation(updated.doc, saved, currentStep, flowConfig, "stored_last")
                   ELSE Outcome(remainingFields[1].prompt, saved, "stored", FALSE)
            ELSE Outcome(ClarificationPrefix \o nextField[1].prompt, onboardingProgress, "clarify", FALSE)

\* AIService.handleStepConfirmation
handleStepConfirmation(onboardingProgress, currentStep, flowConfig) ==
  LET confirmationData == buildConfirmationData(currentStep, currentStepProgress(onboardingProgress))
      confirmed == confirmStepData(onboardingProgress, currentStep.stepId, confirmationData)
  IN
    IF currentStep.nextStep # None /\ currentStep.nextStep[1] # ""
      THEN
        LET moved == moveToNextStep(confirmed.doc, currentStep.nextStep[1])
            nextStep == findStep(flowConfig, currentStep.nextStep[1])
        IN IF nextStep # None /\ nextStep[1].stepType = "data_collection"
             THEN IF Len(nextStep[1].fields) = 0
                    THEN Outcome("", moved.doc, "confirm", TRUE)  \* undefined.prompt: TypeError
                    ELSE Outcome(nextStep[1].fields[1].prompt, moved.doc, "confirm", FALSE)
           ELSE IF nextStep # None /\ nextStep[1].stepType = "completion"
             THEN Outcome(OrElse(nextStep[1].confirmationMessage, flowConfig.completionMessage),
                          moved.doc, "confirm", FALSE)
           ELSE Outcome(ThankYouResponse, moved.doc, "confirm", FALSE)
      ELSE Outcome(ThankYouResponse, confirmed.doc, "confirm", FALSE)

\* a processOnboardingMessage without the correction branch: a correction
\* on a checkpoint step is handled like any other utterance
processOnboardingMessage_withoutCorrection(message, onboardingProgress, flowConfig) ==
  LET currentStep == findStep(flowConfig, onboardingProgress.currentStep) IN
    IF currentStep = None
      THEN Outcome(NotFoundResponse, onboardingProgress, "not_found", FALSE)
      ELSE
        LET intent == intentOf[message] IN
          IF intent.name = "confirmation" /\ currentStep[1].isCheckpoint
            THEN handleStepConfirmation(onboardingProgress, currentStep[1], flowConfig)
          ELSE IF currentStep[1].stepType = "data_collection"
            THEN handleDataCollection(message, onboardingProgress, currentStep[1], flowConfig)
          ELSE IF currentStep[1].stepType = "completion"
            THEN Outcome(OrElse(currentStep[1].confirmationMessage, flowConfig.completionMessage),
                         onboardingProgress, "completion", FALSE)
          ELSE Outcome(FallbackResponse, onboardingProgress, "fallback", FALSE)

\* a processOnboardingMessage that takes a confirmation on any step, checkpoint
\* or not
processOnboardingMessage_confirmsAnyStep(message, onboardingProgress, flowConfig) ==
  LET currentStep == findStep(flowConfig, onboardingProgress.currentStep) IN
    IF currentStep = None
      THEN Outcome(NotFoundResponse, onboardingProgress, "not_found", FALSE)
      ELSE
        LET intent == intentOf[message] IN
          IF intent.name = "confirmation"
            THEN handleStepConfirmation(onboardingProgress, currentStep[1], flowConfig)
          ELSE IF intent.name = "correction" /\ currentStep[1].isCheckpoint
            THEN Outcome(CorrectionResponse, onboardingProgress, "correction", FALSE)
          ELSE IF currentStep[1].stepType = "data_collection"
            THEN handleDataCollection(message, onboardingProgress, currentStep[1], flowConfig)
          ELSE IF currentStep[1].stepType = "completion"
            THEN Outcome(OrElse(currentStep[1].confirmationMessage, flowConfig.completionMessage),
                         onboardingProgress, "completion", FALSE)
          ELSE Outcome(FallbackResponse, onboardingProgress, "fallback", FALSE)

\* AIService.processOnboardingMessage
processOnboardingMessage(message, onboardingProgress, flowConfig) ==
  LET currentStep == findStep(flowConfig, onboardingProgress.currentStep) IN
    IF currentStep = None
      THEN Outcome(NotFoundResponse, onboardingProgress, "not_found", FALSE)
      ELSE
        LET intent == intentOf[message] IN
          IF intent.name = "confirmation" /\ currentStep[1].isCheckpoint
            THEN handleStepConfirmation(onboardingProgress, currentStep[1], flowConfig)
          ELSE IF intent.name = "correction" /\ currentStep[1].isCheckpoint
            THEN Outcome(CorrectionResponse, onboardingProgress, "correction", FALSE)
          ELSE IF currentStep[1].stepType = "data_collection"
            THEN handleDataCollection(message, onboardingProgress, currentStep[1], flowConfig)
          ELSE IF currentStep[1].stepType = "completion"
            THEN Outcome(OrElse(currentStep[1].confirmationMessage, flowConfig.completionMessage),
                         onboardingProgress, "completion", FALSE)
          ELSE Outcome(FallbackResponse, onboardingProgress, "fallback", FALSE)

(***************************************************************************)
(* State: the two collections, and the last request with its response      *)
(***************************************************************************)
VARIABLES
  flowConfigs,   \* OnboardingFlowConfig collection: the flowIds of its documents
  progress,      \* OnboardingProgress collection: documents in insertion order
  last,          \* the request handled last and what was answered
  inflight,      \* utterances being processed concurrently: loaded, not yet answered
  call           \* the helper of AIService called last on its own, with its result

vars == <<flowConfigs, progress, last, inflight, call>>

\* no utterance is in flight
NoneInFlight == << >>

\* no helper has been called on its own
NoCall == [fn |-> "none"]

\* A flow document is stored as submitted and never modified, and flowId is
\* unique in the collection, so the collection is kept as the set of stored
\* flowIds and the document of a stored flowId is read from FlowDocuments.
FlowDocuments == SeededFlows \cup CandidateFlows \cup RevisitFlows

\* OnboardingFlowConfig.findOne({ flowId })
findFlow(flowId) ==
  IF flowId \in flowConfigs
    THEN Some(CHOOSE f \in FlowDocuments : f.flowId = flowId)
    ELSE None

\* OnboardingProgress.findOne({ userId, flowId, status: { $in: ['active', 'paused'] } }):
\* the index of the first such document, 0 when there is none
findActiveProgress(userId, flowId) ==
  LET hits == {i \in 1..Len(progress) :
                 /\ progress[i].userId = userId
                 /\ progress[i].flowId = flowId
                 /\ progress[i].status \in {"active", "paused"}}
  IN IF hits = {} THEN 0 ELSE CHOOSE i \in hits : \A j \in hits : i <= j

\* the request handled last: which handler, on which session (0: none), the
\* branch it took, whether the engine threw, the response text, for
\* POST /start the stepId of the step returned as currentStep, and whether
\* the caller got a failure (an HTTP error status, a rejected promise)
\* instead of a result
Request(op, session, path, threw, response, returnedStep, failed) ==
  [op |-> op, session |-> session, path |-> path, threw |-> threw,
   response |-> response, returnedStep |-> returnedStep, failed |-> failed]

NoRequest == Request("none", 0, "", FALSE, "", None, FALSE)

Init ==
  /\ flowConfigs = {f.flowId : f \in SeededFlows}
  /\ progress = << >>
  /\ last = NoRequest
  /\ inflight = NoneInFlight
  /\ call = NoCall

\* POST /flows
CreateFlow(flowData) ==
  /\ IF findFlow(flowData.flowId) # None
       THEN /\ last' = Request("createFlow", 0, "exists", FALSE,
                               "Flow with this ID already exists", None, TRUE)
            /\ UNCHANGED <<flowConfigs, progress>>
       ELSE /\ Cardinality(flowConfigs) - Cardinality(SeededFlows) < MaxFlows
            /\ flowConfigs' = flowConfigs \cup {flowData.flowId}
            /\ last' = Request("createFlow", 0, "created", FALSE,
                               "Onboarding flow created successfully", None, FALSE)
            /\ UNCHANGED progress
  /\ UNCHANGED <<inflight, call>>

\* POST /start/:flowId
StartFlow(userId, flowId, sessionId) ==
  /\ LET flowConfig == findFlow(flowId)
         existingProgress == findActiveProgress(userId, flowId)
     IN
       IF flowConfig = None
         THEN /\ last' = Request("start", 0, "no_flow", FALSE,
                                 "Onboarding flow not found", None, TRUE)
              /\ UNCHANGED <<flowConfigs, progress>>
       ELSE IF existingProgress # 0
         THEN /\ last' = Request("start", existingProgress, "resumed", FALSE,
                                 "Resuming existing onboarding flow", None, FALSE)
              /\ UNCHANGED <<flowConfigs, progress>>
       ELSE
         LET firstStep == IF findStep(flowConfig[1], "welcome") # None
                            THEN findStep(flowConfig[1], "welcome")
                            ELSE IF Len(flowConfig[1].steps) = 0 THEN None
                            ELSE Some(flowConfig[1].steps[1])
         IN /\ Len(progress) < MaxSessions
            /\ progress' = Append(progress, NewProgress(userId, flowId, sessionId))
            /\ last' = Request("start", Len(progress) + 1, "started", FALSE,
                               flowConfig[1].welcomeMessage,
                               IF firstStep = None THEN None ELSE Some(firstStep[1].stepId), FALSE)
            /\ UNCHANGED flowConfigs
  /\ UNCHANGED <<inflight, call>>

\* One utterance of the session's user: the caller loads the session and
\* its flow, AIService.processMessage hands them to processOnboardingMessage,
\* and what the document methods saved is the session from then on.  Every
\* branch of processOnboardingMessage, its catch included, returns a
\* createResponse message, so the caller never gets a failure.
ProcessUtterance(i, message) ==
  LET flowConfig == findFlow(progress[i].flowId)
      outcome == processOnboardingMessage(message, progress[i], flowConfig[1])
  IN /\ flowConfig # None
     /\ progress' = [progress EXCEPT ![i] = outcome.doc]
     /\ last' = Request("utterance", i, outcome.path, outcome.threw, outcome.content, None, FALSE)
     /\ UNCHANGED <<flowConfigs, inflight, call>>

\* what a client sends to PUT /progress/:sessionId: an optional status and
\* an optional currentStep
ProgressUpdates ==
  {[status |-> Some(status), currentStep |-> None] :
     status \in {"active", "paused", "abandoned", "archived"}}
    \cup {[status |-> None, currentStep |-> Some("welcome")]}

\* OnboardingProgress.findOne({ sessionId, userId }): the index of the first
\* such document, 0 when there is none
findProgress(sessionId, userId) ==
  LET hits == {i \in 1..Len(progress) :
                 progress[i].sessionId = sessionId /\ progress[i].userId = userId}
  IN IF hits = {} THEN 0 ELSE CHOOSE i \in hits : \A j \in hits : i <= j

\* PUT /progress/:sessionId
UpdateProgress(userId, sessionId, updates) ==
  /\ LET i == findProgress(sessionId, userId) IN
       IF updates.status # None
            /\ updates.status[1] \notin {"active", "paused", "completed", "abandoned"}
         THEN /\ last' = Request("update", 0, "invalid", FALSE, "Validation failed", None, TRUE)
              /\ UNCHANGED <<flowConfigs, progress>>
       ELSE IF i = 0
         THEN /\ last' = Request("update", 0, "no_progress", FALSE,
                                 "Onboarding progress not found", None, TRUE)
              /\ UNCHANGED <<flowConfigs, progress>>
       ELSE /\ progress' =
                 [progress EXCEPT
                    ![i].status = IF updates.status # None THEN updates.status[1] ELSE @,
                    ![i].currentStep = IF updates.currentStep # None
                                         THEN updates.currentStep[1] ELSE @]
            /\ last' = Request("update", i, "updated", FALSE,
                               "Onboarding progress updated successfully", None, FALSE)
            /\ UNCHANGED flowConfigs
  /\ UNCHANGED <<inflight, call>>

FlowIds == {f.flowId : f \in FlowDocuments}
SessionIds == {"s1"}

Next ==
  \/ \E flowData \in CandidateFlows : CreateFlow(flowData)
  \/ \E userId \in Users, flowId \in FlowIds, sessionId \in SessionIds :
       StartFlow(userId, flowId, sessionId)
  \/ \E i \in 1..Len(progress), message \in Utterances : ProcessUtterance(i, message)

Spec == Init /\ [][Next]_vars

\* the same requests, together with manual updates of a session
NextWithUpdates ==
  \/ \E flowData \in CandidateFlows : CreateFlow(flowData)
  \/ \E userId \in Users, flowId \in FlowIds, sessionId \in SessionIds :
       StartFlow(userId, flowId, sessionId)
  \/ \E i \in 1..Len(progress), message \in Utterances : ProcessUtterance(i, message)
  \/ \E userId \in Users, sessionId \in SessionIds, updates \in ProgressUpdates :
       UpdateProgress(userId, sessionId, updates)

SpecWithUpdates == Init /\ [][NextWithUpdates]_vars

\* the routes, with administrators also submitting the flows with a cycle
NextRevisit ==
  \/ \E flowData \in CandidateFlows \cup RevisitFlows : CreateFlow(flowData)
  \/ \E userId \in Users, flowId \in FlowIds, sessionId \in SessionIds :
       StartFlow(userId, flowId, sessionId)
  \/ \E i \in 1..Len(progress), message \in Utterances : ProcessUtterance(i, message)

SpecRevisit == Init /\ [][NextRevisit]_vars

(***************************************************************************)
(* Concurrent utterances.  Between two awaited saves of one request the    *)
(* saves of another request can reach the store.  A save sends the paths   *)
(* the request modified on its copy of the document; the store checks the  *)
(* document version (__v) only for the modifications Mongoose versions.    *)
(* The schema does not set optimisticConcurrency.                          *)
(***************************************************************************)
MaxInFlight == 2

\* an OnboardingProgress document with its version key
WithVersion(doc, version) ==
  [userId |-> doc.userId, flowId |-> doc.flowId, sessionId |-> doc.sessionId,
   currentStep |-> doc.currentStep, status |-> doc.status,
   stepProgress |-> doc.stepProgress, version |-> version]

\* one save: what it writes
Save(op, stepIndex, record, fieldData, confirmationData, nextStepId) ==
  [op |-> op, stepIndex |-> stepIndex, record |-> record, fieldData |-> fieldData,
   confirmationData |-> confirmationData, nextStepId |-> nextStepId]

\* The saves processOnboardingMessage awaits for an utterance on the loaded
\* document, in order:
\*   updateFieldData: the step record pushed by handleDataCollection with the
\*     value in it ($push stepProgress), or the value pushed onto the record
\*     that exists ($push stepProgress.k.fieldData);
\*   confirmStepData: status, confirmationData and the confirmed flags of the
\*     record ($set stepProgress.k...), nothing when there is no record;
\*   moveToNextStep: $set currentStep.
\* They are read off the branch the engine took on the loaded document
\* (path) and the step records it left (after).
savesOf(doc, flowConfig, path, after) ==
  LET step == findStep(flowConfig, doc.currentStep)
      k == getCurrentStepProgress(doc)
  IN CASE path \in {"stored", "stored_last"} ->
            IF k = 0
              THEN <<Save("pushRecord", 0, Some(after[Len(after)]), None, None, None)>>
              ELSE <<Save("pushField", k, None,
                          Some(after[k].fieldData[Len(after[k].fieldData)]), None, None)>>
       [] path = "confirm" ->
            (IF k = 0 THEN << >>
             ELSE <<Save("confirm", k, None, None, after[k].confirmationData, None)>>)
            \o (IF step[1].nextStep # None /\ step[1].nextStep[1] # ""
                  THEN <<Save("move", 0, None, None, None, step[1].nextStep)>>
                  ELSE << >>)
       [] OTHER -> << >>

\* a request in flight: the session, the copy of its document the request
\* holds, the saves it has yet to make, and what it answers when they succeed
InFlight(i, doc, flowConfig, outcome) ==
  [session |-> i, copy |-> doc,
   saves |-> savesOf(doc, flowConfig, outcome.path, outcome.doc.stepProgress),
   path |-> outcome.path, threw |-> outcome.threw, response |-> outcome.content]

\* Mongoose checks the version in the query of a save that pushes onto an
\* array inside an array element or sets a path inside an array element
versionChecked(save) == save.op \in {"pushField", "confirm"}

\* Mongoose increments the version on a save that pushes onto an array
versionIncremented(save) == save.op \in {"pushRecord", "pushField"}

\* the document after the write of a save
written(doc, save) ==
  LET bumped == IF versionIncremented(save)
                  THEN [doc EXCEPT !.version = @ + 1] ELSE doc
  IN CASE save.op = "pushRecord" ->
            [bumped EXCEPT !.stepProgress = Append(@, save.record[1])]
       [] save.op = "pushField" ->
            [bumped EXCEPT !.stepProgress[save.stepIndex].fieldData =
                             Append(@, save.fieldData[1])]
       [] save.op = "confirm" ->
            [bumped EXCEPT !.stepProgress[save.stepIndex] =
               [@ EXCEPT !.status = "completed",
                         !.confirmationData = save.confirmationData,
                         !.fieldData = [j \in 1..Len(@) |-> [@[j] EXCEPT !.confirmed = TRUE]]]]
       [] save.op = "move" ->
            [bumped EXCEPT !.currentStep = save.nextStepId[1]]

\* the stored flow of session i
flowOfSession(i) == findFlow(progress[i].flowId)[1]

\* an utterance arrives: the caller loads the session and its flow and the
\* engine runs on the copy up to its first save
Receive(i, message) ==
  /\ Len(inflight) < MaxInFlight
  /\ findFlow(progress[i].flowId) # None
  /\ inflight' = Append(inflight,
                        InFlight(i, progress[i], flowOfSession(i),
                                 processOnboardingMessage(message, progress[i], flowOfSession(i))))
  /\ UNCHANGED <<flowConfigs, progress, last, call>>

\* the next save of request r reaches the store; a version mismatch rejects
\* it (VersionError), which processOnboardingMessage catches
Persist(r) ==
  LET request == inflight[r]
      save == Head(request.saves)
      stored == progress[request.session]
  IN /\ request.saves # << >>
     /\ IF versionChecked(save) /\ stored.version # request.copy.version
          THEN /\ inflight' = [inflight EXCEPT ![r].saves = << >>,
                                               ![r].threw = TRUE,
                                               ![r].response = ErrorResponse]
               /\ UNCHANGED progress
          ELSE /\ progress' = [progress EXCEPT ![request.session] = written(stored, save)]
               /\ inflight' = [inflight EXCEPT ![r].saves = Tail(request.saves),
                                               ![r].copy = written(request.copy, save)]
     /\ UNCHANGED <<flowConfigs, last, call>>

\* request r has no save left and is answered
Respond(r) ==
  LET request == inflight[r] IN
    /\ request.saves = << >>
    /\ inflight' = SelectIndices(inflight, (1..Len(inflight)) \ {r}, 1)
    /\ last' = Request("utterance", request.session, request.path, request.threw,
                       request.response, None, FALSE)
    /\ UNCHANGED <<flowConfigs, progress, call>>

\* one session has been started on a flow an administrator created
InitConcurrent ==
  \E flowData \in CandidateFlows :
    /\ flowConfigs = {f.flowId : f \in SeededFlows} \cup {flowData.flowId}
    /\ progress = <<WithVersion(NewProgress("u1", flowData.flowId, "s1"), 0)>>
    /\ last = NoRequest
    /\ inflight = NoneInFlight
    /\ call = NoCall

NextConcurrent ==
  \/ \E i \in 1..Len(progress), message \in Utterances : Receive(i, message)
  \/ \E r \in 1..Len(inflight) : Persist(r)
  \/ \E r \in 1..Len(inflight) : Respond(r)

SpecConcurrent == InitConcurrent /\ [][NextConcurrent]_vars

(***************************************************************************)
(* The helpers of AIService called on their own, on inputs drawn from      *)
(* bounded sets                                                            *)
(***************************************************************************)
\* words an utterance is made of: keywords of one category ("yes", "no",
\* "thanks", "next"), of two categories ("guide", "proceed"), a word that
\* holds a keyword inside ("this" holds "hi"), a capitalised keyword and a
\* word without any keyword
Words == <<"yes", "no", "guide", "proceed", "thanks", "next", "this", "Hello", "xyz">>
MaxWords == 3

\* the utterances of at most n words, separated by one space
RECURSIVE TextsUpTo(_)
TextsUpTo(n) ==
  IF n = 0 THEN {""}
  ELSE LET shorter == TextsUpTo(n - 1) IN
         shorter \cup {IF t = "" THEN Words[w] ELSE t \o " " \o Words[w] :
                         t \in shorter, w \in 1..Len(Words)}

Texts == TextsUpTo(MaxWords)

\* select fields: the option lists of at most MaxOptions options, and a
\* field without validation
OptionPool == <<"Male", "Female", "Other", "">>
MaxOptions == 2

RECURSIVE OptionListsUpTo(_)
OptionListsUpTo(n) ==
  IF n = 0 THEN {<< >>}
  ELSE LET shorter == OptionListsUpTo(n - 1) IN
         shorter \cup {Append(options, OptionPool[k]) :
                         options \in shorter, k \in 1..Len(OptionPool)}

Validations == {None} \cup {Options(options) : options \in OptionListsUpTo(MaxOptions)}

SelectMessages == {"female", "I am MALE", "other", "male or other", "hello", ""}

\* progress records handed to buildConfirmationData: up to MaxStored entries
\* with distinct fieldIds, in any order; 'nickname' is no field of the step
StoredEntries ==
  {[fieldId |-> "address_type", value |-> "Rented", confirmed |-> FALSE],
   [fieldId |-> "monthly_income", value |-> "50000", confirmed |-> FALSE],
   [fieldId |-> "nickname", value |-> "Sam", confirmed |-> FALSE]}
MaxStored == 2

RECURSIVE FieldDataUpTo(_)
FieldDataUpTo(n) ==
  IF n = 0 THEN {<< >>}
  ELSE LET shorter == FieldDataUpTo(n - 1) IN
         shorter \cup
           UNION {{Append(fieldData, entry) :
                     entry \in {e \in StoredEntries :
                                  \A k \in 1..Len(fieldData) :
                                    fieldData[k].fieldId # e.fieldId}} :
                  fieldData \in shorter}

ConfirmedStep == tenancyFlow.steps[1]

InitHelpers ==
  /\ flowConfigs = {f.flowId : f \in SeededFlows}
  /\ progress = << >>
  /\ last = NoRequest
  /\ inflight = NoneInFlight
  /\ call = NoCall

\* aiService.classifyIntent(text)
Classify(text) ==
  /\ call = NoCall
  /\ call' = [fn |-> "classifyIntent", text |-> text, intent |-> classifyIntent(text)]
  /\ UNCHANGED <<flowConfigs, progress, last, inflight>>

\* aiService.extractFieldValue(message, field) on a select field
ExtractSelect(message, validation) ==
  /\ call = NoCall
  /\ call' = [fn |-> "extractFieldValue", message |-> message, validation |-> validation,
              value |-> extractFieldValue(message,
                          Field("gender", "Gender", "select", TRUE, validation, "Gender?", None))]
  /\ UNCHANGED <<flowConfigs, progress, last, inflight>>

\* aiService.buildConfirmationData(currentStep, stepProgress)
BuildConfirmation(currentStep, fieldData) ==
  /\ call = NoCall
  /\ call' = [fn |-> "buildConfirmationData", currentStep |-> currentStep,
              fieldData |-> fieldData,
              block |-> buildConfirmationData(currentStep,
                          Some([NewStepProgress(currentStep) EXCEPT !.fieldData = fieldData]))]
  /\ UNCHANGED <<flowConfigs, progress, last, inflight>>

NextHelpers ==
  \/ \E text \in Texts : Classify(text)
  \/ \E fieldData \in FieldDataUpTo(MaxStored) : BuildConfirmation(ConfirmedStep, fieldData)
  \/ \E message \in SelectMessages, validation \in Validations :
       ExtractSelect(message, validation)

SpecHelpers == InitHelpers /\ [][NextHelpers]_vars

(***************************************************************************)
(* POST /start/:flowId with its awaits: the handler looks for an active or *)
(* paused session of the user, and saves a new one in a later step.  Other *)
(* start requests run in between.                                          *)
(***************************************************************************)
StartSessionIds == {"s1", "s2"}

\* a start request that found no session and has not saved yet
PendingStart(userId, flowId, sessionId) ==
  [op |-> "start", userId |-> userId, flowId |-> flowId, sessionId |-> sessionId,
   saved |-> FALSE]

\* up to `await OnboardingProgress.findOne({userId, flowId, status: ...})`
StartLookup(userId, flowId, sessionId) ==
  /\ LET flowConfig == findFlow(flowId)
         existingProgress == findActiveProgress(userId, flowId)
     IN
       IF flowConfig = None
         THEN /\ last' = Request("start", 0, "no_flow", FALSE,
                                 "Onboarding flow not found", None, TRUE)
              /\ UNCHANGED inflight
       ELSE IF existingProgress # 0
         THEN /\ last' = Request("start", existingProgress, "resumed", FALSE,
                                 "Resuming existing onboarding flow", None, FALSE)
              /\ UNCHANGED inflight
       ELSE /\ Len(inflight) < MaxInFlight
            /\ inflight' = Append(inflight, PendingStart(userId, flowId, sessionId))
            /\ last' = Request("start", 0, "looked_up", FALSE, "", None, FALSE)
  /\ UNCHANGED <<flowConfigs, progress, call>>

\* `await onboardingProgress.save()` and the response
StartSave(r) ==
  /\ ~inflight[r].saved
  /\ LET request == inflight[r]
         flowConfig == findFlow(request.flowId)
         firstStep == IF findStep(flowConfig[1], "welcome") # None
                        THEN findStep(flowConfig[1], "welcome")
                        ELSE IF Len(flowConfig[1].steps) = 0 THEN None
                        ELSE Some(flowConfig[1].steps[1])
     IN /\ progress' = Append(progress,
                              NewProgress(request.userId, request.flowId, request.sessionId))
        /\ last' = Request("start", Len(progress) + 1, "started", FALSE,
                           flowConfig[1].welcomeMessage,
                           IF firstStep = None THEN None ELSE Some(firstStep[1].stepId), FALSE)
  /\ inflight' = [inflight EXCEPT ![r].saved = TRUE]
  /\ UNCHANGED <<flowConfigs, call>>

NextStarts ==
  \/ \E userId \in Users, flowId \in FlowIds, sessionId \in StartSessionIds :
       StartLookup(userId, flowId, sessionId)
  \/ \E r \in 1..Len(inflight) : StartSave(r)

SpecStarts == Init /\ [][NextStarts]_vars

(***************************************************************************)
(* Cooperative users: every session of an acyclic flow of checkpoint steps *)
(* is answered by a user who gives a value when a field is open and        *)
(* confirms when the step is complete.                                     *)
(***************************************************************************)
\* acyclic flows whose data_collection steps are all checkpoints with a
\* confirmation message, starting on 'welcome' and ending on a completion step
CooperativeFlows == {tenancyFlow, residenceFlow}

MaxRespondents == 2
RespondentIds == <<"u1", "u2", "u3">>
RespondentSessions == <<"s1", "s2", "s3">>

\* what a cooperative user may say to session i: a value for the open field
\* that is classified neither as confirmation nor as correction, or a
\* confirmation once every field of the step is stored; nothing on a
\* completion step
cooperative(i, message) ==
  LET step == findStep(flowOfSession(i), progress[i].currentStep) IN
    /\ step # None
    /\ step[1].stepType = "data_collection"
    /\ LET nextField == getNextFieldToCollect(step[1], progress[i]) IN
         IF nextField # None
           THEN /\ extractedValue[message, nextField[1]] # None
                /\ intentOf[message].name \notin {"confirmation", "correction"}
           ELSE intentOf[message].name = "confirmation"

\* the user of session i answers the engine
Answer(i, message) ==
  /\ cooperative(i, message)
  /\ ProcessUtterance(i, message)

\* POST /start by each respondent on the one flow that was created
InitCooperative ==
  \E flowData \in CooperativeFlows :
    /\ flowConfigs = {f.flowId : f \in SeededFlows} \cup {flowData.flowId}
    /\ progress = [i \in 1..MaxRespondents |->
                     NewProgress(RespondentIds[i], flowData.flowId, RespondentSessions[i])]
    /\ last = NoRequest
    /\ inflight = NoneInFlight
    /\ call = NoCall

NextCooperative ==
  \/ \E i \in 1..Len(progress), message \in Utterances : Answer(i, message)

\* Weak fairness of the user's answers to session i, that is
\* WF_vars(\E message \in Utterances : Answer(i, message)), written out: the
\* action is enabled exactly when some utterance is cooperative (an answer
\* always stores a value or moves the session), and a step of NextCooperative
\* is an answer to session i exactly when it leaves `last` on that session.
KeepsAnswering(i) ==
  \/ []<>(~ \E message \in Utterances : cooperative(i, message))
  \/ []<><<last'.op = "utterance" /\ last'.session = i>>_vars

\* every user keeps answering
SpecCooperative ==
  /\ InitCooperative
  /\ [][NextCooperative]_vars
  /\ \A i \in 1..MaxRespondents : KeepsAnswering(i)

(***************************************************************************)
(* Properties of the onboarding engine                                     *)
(***************************************************************************)
\* the flow definition a session runs on
flowOf(doc) == CHOOSE f \in FlowDocuments : f.flowId = doc.flowId

\* the fieldIds a step record holds a value for
storedFieldIds(record) == {record.fieldData[k].fieldId : k \in 1..Len(record.fieldData)}

\* the (fieldId, value) pairs of a step record
storedValues(record) ==
  {<<record.fieldData[k].fieldId, record.fieldData[k].value>> : k \in 1..Len(record.fieldData)}

\* every (stepId, fieldId, value) a session holds
sessionValues(doc) ==
  UNION { {<<doc.stepProgress[k].stepId, pair[1], pair[2]>> : pair \in storedValues(doc.stepProgress[k])} :
          k \in 1..Len(doc.stepProgress) }

\* the step answers an utterance on session i: what every step of
\* ProcessUtterance(i, message) does, whatever the message
answersUtterance(i) == last'.op = "utterance" /\ last'.session = i

\* C1: after any sequence of processed utterances on any session, no step
\* progress record has status 'completed' while a required field of that
\* step has no stored value.
C1_CompletedStepsHoldRequiredValues ==
  \A i \in 1..Len(progress) : \A k \in 1..Len(progress[i].stepProgress) :
    LET record == progress[i].stepProgress[k]
        step == findStep(flowOf(progress[i]), record.stepId)
    IN record.status = "completed" /\ step # None =>
         \A j \in 1..Len(step[1].fields) :
           step[1].fields[j].required => step[1].fields[j].fieldId \in storedFieldIds(record)

\* C2: once a step's progress record has status 'completed', no later
\* utterance adds a field value to that record or changes one of its stored
\* values.
C2_CompletedRecordsKeepTheirValues ==
  [][\A i \in 1..Len(progress) : \A k \in 1..Len(progress[i].stepProgress) :
       progress[i].stepProgress[k].status = "completed" =>
         storedValues(progress'[i].stepProgress[k]) = storedValues(progress[i].stepProgress[k])]_vars

\* C3: in every reachable state, from session creation through every step
\* advance, the currentStep of every session names a step that exists in the
\* flow definition of the session.
C3_CurrentStepNamesAStepOfTheFlow ==
  \A i \in 1..Len(progress) :
    findStep(flowOf(progress[i]), progress[i].currentStep) # None

\* C4: starting a flow for a user without an active or paused session on it
\* creates a session with status 'active' whose currentStep is the step the
\* start operation returns as the current step, the entry step of the flow.
C4_StartCreatesSessionOnReturnedStep ==
  last.op = "start" /\ last.path = "started" =>
    LET doc == progress[last.session] IN
      /\ doc.status = "active"
      /\ last.returnedStep = Some(doc.currentStep)
      /\ findStep(flowOf(doc), doc.currentStep) # None

\* C5: when a confirmation moves the session onto a step of type
\* 'completion', or confirms a step whose nextStep is empty, the status of
\* the session becomes 'completed'.
C5_ConfirmingTheLastStepCompletesTheSession ==
  [][\A i \in 1..Len(progress), message \in Utterances :
       LET step == findStep(flowOf(progress[i]), progress[i].currentStep)
           next == IF step[1].nextStep = None THEN None
                   ELSE findStep(flowOf(progress[i]), step[1].nextStep[1])
       IN /\ step # None
          /\ step[1].isCheckpoint
          /\ intentOf[message].name = "confirmation"
          /\ \/ step[1].nextStep = None
             \/ step[1].nextStep[1] = ""
             \/ next # None /\ next[1].stepType = "completion"
          /\ ProcessUtterance(i, message)
          => progress'[i].status = "completed"]_vars

\* the step a session is on, None when currentStep names no step of its flow
currentStepOf(doc) == findStep(flowOf(doc), doc.currentStep)

\* the session holds a record of the step with a value for each of its fields
allFieldsStored(step, doc) ==
  LET k == findStepIndex(doc.stepProgress, step.stepId, 1) IN
    /\ k # 0
    /\ \A j \in 1..Len(step.fields) :
         step.fields[j].fieldId \in storedFieldIds(doc.stepProgress[k])

\* the position of the first field of the step, in declared order, that
\* the session holds no value for; 0 when there is none
firstUnfilled(step, doc) ==
  LET k == findStepIndex(doc.stepProgress, step.stepId, 1)
      filled == IF k = 0 THEN {} ELSE storedFieldIds(doc.stepProgress[k])
      open == {j \in 1..Len(step.fields) : step.fields[j].fieldId \notin filled}
  IN IF open = {} THEN 0 ELSE CHOOSE j \in open : \A l \in open : j <= l

\* an utterance classified as 'confirmation' is processed on session i while
\* it is on a checkpoint step with a value stored for each field
confirmsFilledCheckpoint(i, message) ==
  LET step == currentStepOf(progress[i]) IN
    /\ answersUtterance(i)
    /\ step # None
    /\ step[1].isCheckpoint
    /\ allFieldsStored(step[1], progress[i])
    /\ intentOf[message].name = "confirmation"
    /\ ProcessUtterance(i, message)

\* the record of the step session i was on is completed and holds the
\* confirmation text built from its values
recordCompletedWithSnapshot(i) ==
  LET step == currentStepOf(progress[i])[1]
      k == findStepIndex(progress[i].stepProgress, step.stepId, 1)
  IN /\ progress'[i].stepProgress[k].status = "completed"
     /\ progress'[i].stepProgress[k].confirmationData =
          Some(buildConfirmationData(step, Some(progress[i].stepProgress[k])))

\* C6 as the specification states it: on a checkpoint step whose fields have
\* all been stored, an utterance classified as 'confirmation' marks the
\* step's record 'completed', stores the confirmation snapshot on it, and
\* sets currentStep to the step's nextStep.
C6_ConfirmationSetsCurrentStepToNextStep ==
  [][\A i \in 1..Len(progress), message \in Utterances :
       confirmsFilledCheckpoint(i, message) =>
         /\ recordCompletedWithSnapshot(i)
         /\ Some(progress'[i].currentStep) = currentStepOf(progress[i])[1].nextStep]_vars

\* C6: on a checkpoint step whose record holds a value for each field, an
\* utterance classified as 'confirmation' marks the record 'completed' and
\* stores the confirmation snapshot on it; currentStep becomes the step's
\* nextStep when that is not empty, and stays as it is otherwise.
C6_ConfirmationCompletesStepAndAdvances ==
  [][\A i \in 1..Len(progress), message \in Utterances :
       confirmsFilledCheckpoint(i, message) =>
         LET nextStep == currentStepOf(progress[i])[1].nextStep IN
           /\ recordCompletedWithSnapshot(i)
           /\ progress'[i].currentStep =
                IF nextStep # None /\ nextStep[1] # "" THEN nextStep[1]
                ELSE progress[i].currentStep]_vars

\* a confirmation has just completed a fully stored step and moved the
\* session to the step after it
C6_Witness ==
  /\ last.op = "utterance" /\ last.path = "confirm"
  /\ LET doc == progress[last.session]
         flow == flowOf(doc)
     IN \E j \in 1..Len(flow.steps) :
          /\ flow.steps[j].nextStep = Some(doc.currentStep)
          /\ allFieldsStored(flow.steps[j], doc)
          /\ \E k \in 1..Len(doc.stepProgress) :
               /\ doc.stepProgress[k].stepId = flow.steps[j].stepId
               /\ doc.stepProgress[k].status = "completed"
               /\ doc.stepProgress[k].confirmationData # None

\* C7: while the current data_collection step still has an unfilled field,
\* every processed utterance is run through extraction for the first
\* unfilled field in declared order, and whenever that extraction succeeds
\* the value is stored for that field and no other field of the session
\* changes.
C7_SuccessfulExtractionIsStored ==
  [][\A i \in 1..Len(progress), message \in Utterances :
       LET step == currentStepOf(progress[i])
           j == firstUnfilled(step[1], progress[i])
           value == extractedValue[message, step[1].fields[j]]
       IN /\ step # None
          /\ step[1].stepType = "data_collection"
          /\ j # 0
          /\ value # None
          /\ ProcessUtterance(i, message)
          => sessionValues(progress'[i]) =
               sessionValues(progress[i]) \cup
                 {<<step[1].stepId, step[1].fields[j].fieldId, value[1]>>}]_vars

\* C8: when the extraction the engine runs for the next unfilled field
\* returns none, the response is the clarification prefix followed by the
\* prompt of that same field, and the persisted sessions are unchanged: no
\* value is stored, no step status changes and currentStep stays the same.
C8_FailedExtractionRepromptsSameField ==
  [][\A i \in 1..Len(progress), message \in Utterances :
       LET step == currentStepOf(progress[i])
           j == firstUnfilled(step[1], progress[i])
       IN /\ answersUtterance(i)
          /\ step # None
          /\ step[1].stepType = "data_collection"
          /\ ~(step[1].isCheckpoint /\ intentOf[message].name \in {"confirmation", "correction"})
          /\ j # 0
          /\ extractedValue[message, step[1].fields[j]] = None
          /\ ProcessUtterance(i, message)
          => /\ last'.response = "I couldn't understand that. " \o step[1].fields[j].prompt
             /\ progress' = progress]_vars

\* the engine has just asked again for a field after a failed extraction,
\* on a session that already holds a value of that step
C8_Witness ==
  /\ last.op = "utterance" /\ last.path = "clarify"
  /\ LET doc == progress[last.session]
         step == currentStepOf(doc)
     IN /\ step # None
        /\ firstUnfilled(step[1], doc) > 1
        /\ last.response =
             "I couldn't understand that. " \o step[1].fields[firstUnfilled(step[1], doc)].prompt

\* C9: when the record of the current checkpoint step holds a value for each
\* field and the utterance is classified as neither 'confirmation' nor
\* 'correction', the response is the step's confirmation message with the
\* confirmation block of the stored values substituted, and the persisted
\* sessions are unchanged.
C9_OtherIntentReasksConfirmation ==
  [][\A i \in 1..Len(progress), message \in Utterances :
       LET doc == progress[i]
           step == currentStepOf(doc)
           k == findStepIndex(doc.stepProgress, doc.currentStep, 1)
       IN /\ answersUtterance(i)
          /\ step # None
          /\ step[1].isCheckpoint
          /\ step[1].stepType = "data_collection"
          /\ step[1].confirmationMessage # None
          /\ allFieldsStored(step[1], doc)
          /\ intentOf[message].name \notin {"confirmation", "correction"}
          /\ ProcessUtterance(i, message)
          => /\ last'.response =
                  replace(step[1].confirmationMessage[1], "{confirmation_data}",
                          buildConfirmationData(step[1], Some(doc.stepProgress[k])))
             /\ progress' = progress]_vars

\* the confirmation question has just been asked again on a checkpoint step
\* whose fields are all stored
C9_Witness ==
  /\ last.op = "utterance" /\ last.path = "all_collected" /\ ~last.threw
  /\ LET doc == progress[last.session]
         step == currentStepOf(doc)
     IN /\ step # None
        /\ step[1].isCheckpoint
        /\ allFieldsStored(step[1], doc)

\* an utterance is processed on session i while its current step is a
\* completion step
utteranceOnCompletionStep(i, message) ==
  LET step == currentStepOf(progress[i]) IN
    /\ answersUtterance(i)
    /\ step # None
    /\ step[1].stepType = "completion"
    /\ ProcessUtterance(i, message)

stepRecords(doc) ==
  [k \in 1..Len(doc.stepProgress) |->
     <<doc.stepProgress[k].stepId, doc.stepProgress[k].status,
       storedValues(doc.stepProgress[k])>>]

\* C11: once the status of a session has been set to 'abandoned', no
\* utterance stores a field value, completes a step or changes currentStep.
C11_AbandonedSessionsCollectNothing ==
  [][\A i \in 1..Len(progress), message \in Utterances :
       /\ answersUtterance(i)
       /\ progress[i].status = "abandoned"
       /\ ProcessUtterance(i, message)
       => /\ stepRecords(progress'[i]) = stepRecords(progress[i])
          /\ progress'[i].currentStep = progress[i].currentStep]_vars

\* C12: an utterance that finds the currentStep of its session missing from
\* the flow is answered with a failure surfaced to the caller, not with a
\* response message; an utterance whose extraction misses is answered with
\* a response message, never with a failure.
C12_MissingStepIsSurfacedAsFailure ==
  last.op = "utterance" =>
    /\ last.path = "not_found" => last.failed
    /\ last.path = "clarify" => ~last.failed /\ ~last.threw

\* the request answered last was a confirmation on session i that completed
\* the record of a step; the session is on a step of its flow and every
\* completed record of the session holds a value for each field of its step
confirmationJustCompletedAStep(i) ==
  /\ last.op = "utterance" /\ last.session = i
  /\ last.path = "confirm" /\ ~last.threw
  /\ currentStepOf(progress[i]) # None
  /\ \E k \in 1..Len(progress[i].stepProgress) :
       progress[i].stepProgress[k].status = "completed"
  /\ \A k \in 1..Len(progress[i].stepProgress) :
       LET record == progress[i].stepProgress[k]
           step == findStep(flowOf(progress[i]), record.stepId)
       IN record.status = "completed" =>
            \A j \in 1..Len(step[1].fields) :
              step[1].fields[j].fieldId \in storedFieldIds(record)

\* C13: after a confirmation utterance has completed a step, a further
\* confirmation utterance is answered with the same response as that one
\* and changes no stored value, no step record and not currentStep.
C13_RepeatedConfirmationIsIdempotent ==
  [][\A i \in 1..Len(progress), message \in Utterances :
       /\ answersUtterance(i)
       /\ confirmationJustCompletedAStep(i)
       /\ intentOf[message].name = "confirmation"
       /\ ProcessUtterance(i, message)
       => /\ last'.response = last.response
          /\ progress'[i] = progress[i]]_vars

\* request r lost a race: the stored session is no longer the document the
\* request holds
lostRace(r) == progress[inflight[r].session] # inflight[r].copy

\* some field of some step of the session is held more than once
fieldFilledTwice(doc) ==
  \E k, l \in 1..Len(doc.stepProgress) :
    \E a \in 1..Len(doc.stepProgress[k].fieldData), b \in 1..Len(doc.stepProgress[l].fieldData) :
      /\ <<k, a>> # <<l, b>>
      /\ doc.stepProgress[k].stepId = doc.stepProgress[l].stepId
      /\ doc.stepProgress[k].fieldData[a].fieldId = doc.stepProgress[l].fieldData[b].fieldId

\* C14: when utterances for one session are processed concurrently, a save
\* of a request that lost the race is rejected instead of written, and no
\* field of a step is filled twice.
C14_LostRacePersistFails ==
  [][\A r \in 1..Len(inflight) :
       inflight[r].saves # << >> /\ lostRace(r) /\ Persist(r) =>
         /\ inflight'[r].threw
         /\ progress' = progress
         /\ \A i \in 1..Len(progress) : ~fieldFilledTwice(progress'[i])]_vars

\* for each category, the share of its keywords that occur in the
\* lowercased text
confidencesIn(text) ==
  LET lower == toLowerCase(text)
      share(keywords) ==
        [num |-> Cardinality({j \in 1..Len(keywords) : includes(lower, keywords[j])}),
         den |-> Len(keywords)]
  IN <<share(intentKeywords[1].keywords), share(intentKeywords[2].keywords),
       share(intentKeywords[3].keywords), share(intentKeywords[4].keywords),
       share(intentKeywords[5].keywords), share(intentKeywords[6].keywords),
       share(intentKeywords[7].keywords), share(intentKeywords[8].keywords),
       share(intentKeywords[9].keywords), share(intentKeywords[10].keywords),
       share(intentKeywords[11].keywords)>>

\* confidence a is at least confidence b
atLeast(a, b) == a.num * b.den >= b.num * a.den

\* the categories with the highest confidence, when that is above zero
topCategories(confidences) ==
  {k \in 1..Len(confidences) :
     /\ confidences[k].num > 0
     /\ \A l \in 1..Len(confidences) : atLeast(confidences[k], confidences[l])}

\* C15: classifyIntent returns the earliest-registered category among those
\* with the highest nonzero confidence, with that confidence, and
\* {unknown, 0} when no keyword of any category occurs in the text; the
\* result depends on the text alone.
C15_ClassifierReturnsEarliestBestCategory ==
  call.fn = "classifyIntent" =>
    LET confidences == confidencesIn(call.text)
        top == topCategories(confidences)
    IN IF top = {}
         THEN call.intent.name = "unknown" /\ call.intent.confidence.num = 0
         ELSE LET first == CHOOSE k \in top : \A l \in top : k <= l IN
                /\ call.intent.name = intentKeywords[first].name
                /\ call.intent.confidence = confidences[first]

\* a text was classified for which two categories share the highest
\* confidence, and the earlier-registered one was returned
C15_Witness ==
  /\ call.fn = "classifyIntent"
  /\ \E k, l \in topCategories(confidencesIn(call.text)) :
       k < l /\ call.intent.name = intentKeywords[k].name

\* the first option, in declaration order, whose lowercase text is a
\* substring of the lowercased message; None when there is none
firstMatching(options, message) ==
  LET hits == {k \in 1..Len(options) :
                 includes(toLowerCase(message), toLowerCase(options[k]))}
  IN IF hits = {} THEN None
     ELSE Some(options[CHOOSE k \in hits : \A l \in hits : k <= l])

\* C16 as the specification states it: for a select field, extraction
\* returns the first option in declaration order whose lowercase text is a
\* substring of the lowercased utterance, and none when no option is such a
\* substring or the field declares no options.
C16_SelectReturnsFirstMatchingOption ==
  call.fn = "extractFieldValue" =>
    call.value = IF call.validation = None THEN None
                 ELSE firstMatching(call.validation[1].options, call.message)

\* C16: for a select field, extraction returns the first option in
\* declaration order whose lowercase text is a substring of the lowercased
\* utterance when that option is not the empty string, and none when that
\* option is the empty string, when no option is such a substring or when
\* the field declares no options.
C16_SelectReturnsFirstMatchingNonEmptyOption ==
  call.fn = "extractFieldValue" =>
    LET first == IF call.validation = None THEN None
                 ELSE firstMatching(call.validation[1].options, call.message)
    IN call.value = IF first # None /\ first[1] # "" THEN first ELSE None

\* a message that holds two of the declared options was answered with the
\* one declared first
C16_Witness ==
  /\ call.fn = "extractFieldValue"
  /\ call.validation # None
  /\ LET options == call.validation[1].options IN
       /\ Len(options) = 2
       /\ options[1] # options[2]
       /\ options[1] # ""
       /\ includes(toLowerCase(call.message), toLowerCase(options[2]))
       /\ call.value = Some(options[1])

\* the confirmation line of a field for a stored value
confirmationLine(field, value) ==
  replace(OrElse(field.confirmationPrompt, field.fieldName \o ": {value}"), "{value}", value)

\* one line per field of the step that has a stored value, in the step's
\* declared field order
linesInDeclaredOrder(currentStep, fieldData) ==
  LET stored == {k \in 1..Len(currentStep.fields) :
                   findFieldIndex(fieldData, currentStep.fields[k].fieldId, 1) # 0}
      fields == SelectIndices(currentStep.fields, stored, 1)
  IN [k \in 1..Len(fields) |->
        confirmationLine(fields[k],
          fieldData[findFieldIndex(fieldData, fields[k].fieldId, 1)].value)]

\* C17: for any step and any progress record, the confirmation block has
\* one line per field that has a stored value, in the step's declared field
\* order regardless of the order in which the values were stored, and no
\* line (not even an empty one) for a field or entry without a matching
\* stored value.
C17_ConfirmationBlockFollowsDeclaredOrder ==
  call.fn = "buildConfirmationData" =>
    call.block = join(linesInDeclaredOrder(call.currentStep, call.fieldData), "\n")

\* the progress records of a document that belong to a step, in their order
recordsOfStep(doc, stepId) ==
  SelectIndices(doc.stepProgress,
                {k \in 1..Len(doc.stepProgress) : doc.stepProgress[k].stepId = stepId}, 1)

recordedSteps(doc) == {doc.stepProgress[k].stepId : k \in 1..Len(doc.stepProgress)}

\* C18: processing an utterance mutates at most the progress record of the
\* step that is current when the utterance arrives; the progress records of
\* all other steps (status, field values, snapshot) and the records of all
\* other sessions are left unchanged.
C18_OnlyCurrentStepRecordIsMutated ==
  [][\A i \in 1..Len(progress) :
       answersUtterance(i)
         => /\ Len(progress') = Len(progress)
            /\ \A j \in 1..Len(progress) :
                 j # i => progress'[j].stepProgress = progress[j].stepProgress
            /\ \A stepId \in (recordedSteps(progress[i]) \cup recordedSteps(progress'[i]))
                                \ {progress[i].currentStep} :
                 recordsOfStep(progress'[i], stepId) = recordsOfStep(progress[i], stepId)]_vars

\* a value was stored on a step while the session holds the completed
\* record of an earlier step
C18_Witness ==
  /\ last.op = "utterance" /\ last.path \in {"stored", "stored_last"} /\ ~last.threw
  /\ LET doc == progress[last.session]
         k == getCurrentStepProgress(doc)
     IN /\ k # 0
        /\ Len(doc.stepProgress[k].fieldData) > 0
        /\ \E l \in 1..Len(doc.stepProgress) :
             /\ doc.stepProgress[l].stepId # doc.currentStep
             /\ doc.stepProgress[l].status = "completed"
             /\ Len(doc.stepProgress[l].fieldData) > 0

\* C19: when a confirmation moves the session onto a data_collection step,
\* the response is the prompt of that step's first field (in declared
\* order) that has no stored value, also when the step is re-entered
\* through a cycle in the step graph and already holds values.
C19_EntryPromptsFirstUnfilledField ==
  [][\A i \in 1..Len(progress) :
       LET step == currentStepOf(progress[i])
           entered == findStep(flowOf(progress[i]), progress'[i].currentStep)
           unfilled == getNextFieldToCollect(entered[1], progress'[i])
       IN /\ answersUtterance(i)
          /\ last'.path = "confirm"
          /\ ~last'.threw
          /\ step # None
          /\ step[1].nextStep = Some(progress'[i].currentStep)
          /\ entered # None
          /\ entered[1].stepType = "data_collection"
          /\ unfilled # None
          => last'.response = unfilled[1].prompt]_vars

\* the fields of a step that are required and have no value in the document
requiredWithoutValue(step, doc) ==
  LET k == findStepIndex(doc.stepProgress, step.stepId, 1) IN
    {j \in 1..Len(step.fields) :
       /\ step.fields[j].required
       /\ (k = 0 \/ step.fields[j].fieldId \notin storedFieldIds(doc.stepProgress[k]))}

\* C20: after a value is stored, the response is the rendered confirmation
\* message exactly when no required field of the current step remains
\* without a value (unfilled optional fields do not delay it); otherwise the
\* response is the prompt of the next unfilled field.
C20_ConfirmationShownWhenNoRequiredFieldRemains ==
  [][\A i \in 1..Len(progress) :
       LET step == currentStepOf(progress[i])
           doc == progress'[i]
           k == findStepIndex(doc.stepProgress, doc.currentStep, 1)
       IN /\ answersUtterance(i)
          /\ last'.path \in {"stored", "stored_last"}
          /\ ~last'.threw
          /\ step # None
          /\ step[1].confirmationMessage # None
          => last'.response =
               IF requiredWithoutValue(step[1], doc) = {}
                 THEN replace(step[1].confirmationMessage[1], "{confirmation_data}",
                              buildConfirmationData(step[1], Some(doc.stepProgress[k])))
                 ELSE getNextFieldToCollect(step[1], doc)[1].prompt]_vars

\* C21: on a checkpoint step, an utterance classified as 'correction'
\* produces the request to state what should change and leaves the whole
\* session unchanged: no field value, step status, snapshot or currentStep
\* is modified.
C21_CorrectionAsksWhatToChangeAndKeepsSession ==
  [][\A i \in 1..Len(progress), message \in Utterances :
       LET step == currentStepOf(progress[i])
       IN /\ answersUtterance(i)
          /\ step # None
          /\ step[1].isCheckpoint
          /\ intentOf[message].name = "correction"
          /\ ProcessUtterance(i, message)
          => /\ last'.response = CorrectionResponse
             /\ ~last'.threw
             /\ progress' = progress]_vars

\* a correction was answered on a checkpoint step that already holds a value
C21_Witness ==
  /\ last.op = "utterance" /\ last.path = "correction"
  /\ last.response = CorrectionResponse
  /\ LET doc == progress[last.session]
         step == currentStepOf(doc)
         k == getCurrentStepProgress(doc)
     IN /\ step # None
        /\ step[1].isCheckpoint
        /\ k # 0
        /\ Len(doc.stepProgress[k].fieldData) > 0

\* C22: whenever a session's currentStep advances from a step S to S's
\* nextStep, S has a progress record whose status is 'completed'.
C22_LeftStepsAreRecordedCompleted ==
  [][\A i \in 1..Len(progress) :
       LET step == currentStepOf(progress[i])
       IN /\ answersUtterance(i)
          /\ step # None
          /\ progress'[i].currentStep # progress[i].currentStep
          /\ step[1].nextStep = Some(progress'[i].currentStep)
          => \E k \in 1..Len(progress'[i].stepProgress) :
               /\ progress'[i].stepProgress[k].stepId = progress[i].currentStep
               /\ progress'[i].stepProgress[k].status = "completed"]_vars

C24_CooperativeSessionsReachCompletion ==
  \A i \in 1..MaxRespondents :
    <>(/\ currentStepOf(progress[i]) # None
       /\ currentStepOf(progress[i])[1].stepType = "completion")

\* every session stands on the completion step, each data_collection step
\* of the flow recorded as completed with all its values
C24_Witness ==
  /\ Len(progress) = MaxRespondents
  /\ \A i \in 1..Len(progress) :
       /\ currentStepOf(progress[i]) # None
       /\ currentStepOf(progress[i])[1].stepType = "completion"
       /\ \A j \in 1..Len(flowOf(progress[i]).steps) :
            LET step == flowOf(progress[i]).steps[j]
                k == findStepIndex(progress[i].stepProgress, step.stepId, 1)
            IN step.stepType = "data_collection" =>
                 /\ k # 0
                 /\ progress[i].stepProgress[k].status = "completed"
                 /\ allFieldsStored(step, progress[i])

\* C25: whenever processing an utterance ends in the engine's generic
\* processing-error response (an exception caught inside
\* processOnboardingMessage), the persisted session is exactly as it was
\* before the utterance: no field value was stored, no step was completed
\* and currentStep did not move.
C25_ErrorResponseLeavesSessionUntouched ==
  [][\A i \in 1..Len(progress) :
       /\ answersUtterance(i)
       /\ last'.threw
       /\ last'.response = ErrorResponse
       => progress'[i] = progress[i]]_vars

\* no record of the document holds two entries for one fieldId
oneEntryPerField(doc) ==
  \A k \in 1..Len(doc.stepProgress) :
    LET fieldData == doc.stepProgress[k].fieldData IN
      \A a, b \in 1..Len(fieldData) : fieldData[a].fieldId = fieldData[b].fieldId => a = b

\* C26: the engine never stores a value for a field that already has one:
\* in every reachable state each step record holds at most one entry per
\* fieldId, and a value once stored is never changed by any later utterance,
\* including utterances that follow a correction request.
C26_StoredValuesAreNeverOverwritten ==
  [][\A i \in 1..Len(progress) :
       /\ Len(progress') >= i
       /\ oneEntryPerField(progress'[i])
       /\ \A k \in 1..Len(progress[i].stepProgress) :
            LET fieldData == progress[i].stepProgress[k].fieldData
                after == progress'[i].stepProgress
            IN /\ Len(after) >= k
               /\ after[k].stepId = progress[i].stepProgress[k].stepId
               /\ Len(after[k].fieldData) >= Len(fieldData)
               /\ \A j \in 1..Len(fieldData) :
                    /\ after[k].fieldData[j].fieldId = fieldData[j].fieldId
                    /\ after[k].fieldData[j].value = fieldData[j].value]_vars

\* a second value was stored in a record that already held a value of
\* another field
C26_Witness ==
  /\ last.op = "utterance" /\ last.path \in {"stored", "stored_last"}
  /\ LET doc == progress[last.session]
         k == getCurrentStepProgress(doc)
     IN /\ k # 0
        /\ Len(doc.stepProgress[k].fieldData) >= 2
        /\ doc.stepProgress[k].fieldData[1].fieldId # doc.stepProgress[k].fieldData[2].fieldId

\* C27: in every state reachable through the engine, the fieldIds stored in
\* a step's progress record are, in storage order, a prefix of the step's
\* declared field list: fields are collected strictly in declared order
\* with no gaps, so the rendered confirmation lines appear in declared order.
C27_StoredFieldsArePrefixOfDeclaredFields ==
  \A i \in 1..Len(progress) : \A k \in 1..Len(progress[i].stepProgress) :
    LET record == progress[i].stepProgress[k]
        step == findStep(flowOf(progress[i]), record.stepId)
    IN step # None =>
         /\ Len(record.fieldData) <= Len(step[1].fields)
         /\ \A j \in 1..Len(record.fieldData) :
              record.fieldData[j].fieldId = step[1].fields[j].fieldId
         /\ buildConfirmationData(step[1], Some(record))
              = join(linesInDeclaredOrder(step[1], record.fieldData), "\n")

\* a record holds the values of both fields of a two-field step
C27_Witness ==
  \E i \in 1..Len(progress) : \E k \in 1..Len(progress[i].stepProgress) :
    LET record == progress[i].stepProgress[k]
        step == findStep(flowOf(progress[i]), record.stepId)
    IN /\ step # None
       /\ Len(step[1].fields) = 2
       /\ Len(record.fieldData) = 2
       /\ record.fieldData[2].fieldId = step[1].fields[2].fieldId

\* C28: for every step record with status 'completed', every field entry
\* has confirmed = true and the stored confirmation snapshot equals the
\* confirmation block rendered from that record's current field values.
C28_CompletedRecordsAreConfirmedAndSnapshotIsCurrent ==
  \A i \in 1..Len(progress) : \A k \in 1..Len(progress[i].stepProgress) :
    LET record == progress[i].stepProgress[k]
        step == findStep(flowOf(progress[i]), record.stepId)
    IN record.status = "completed" /\ step # None =>
         /\ \A j \in 1..Len(record.fieldData) : record.fieldData[j].confirmed
         /\ record.confirmationData = Some(buildConfirmationData(step[1], Some(record)))

\* the sessions of a user on a flow that are active or paused
openSessions(userId, flowId) ==
  {i \in 1..Len(progress) :
     /\ progress[i].userId = userId
     /\ progress[i].flowId = flowId
     /\ progress[i].status \in {"active", "paused"}}

\* C29: after any interleaving of start requests by one user for one flow,
\* at most one progress record with status 'active' or 'paused' exists for
\* that (user, flow) pair; a start request made while such a record exists
\* returns it and creates no new record.
C29_AtMostOneOpenSessionPerUserAndFlow ==
  /\ \A userId \in Users, flowId \in FlowIds :
       Cardinality(openSessions(userId, flowId)) <= 1
  /\ last.op = "start" /\ last.path = "resumed" =>
       progress[last.session].status \in {"active", "paused"}

\* C30: for a select field, an utterance that is exactly one of the allowed
\* options (compared case-insensitively) extracts that same option, for
\* every option of the field, including when one option's text is contained
\* in another's (e.g. 'Male' and 'Female').
C30_ExactOptionExtractsThatOption ==
  call.fn = "extractFieldValue" /\ call.validation # None =>
    LET options == call.validation[1].options IN
      (\A l \in 1..Len(options) : options[l] # "") =>
        \A k \in 1..Len(options) :
          toLowerCase(options[k]) = toLowerCase(call.message) => call.value = Some(options[k])

=============================================================================
